---- MODULE Spec2Model ----
(***************************************************************************)
(* NewsScreen (src/app/(tabs)/index.tsx): a React Native screen that       *)
(* fetches paginated headlines, appends them to a feed, advances the page  *)
(* on scroll, and saves/loads bookmarks through AsyncStorage.              *)
(*                                                                         *)
(* React semantics used by the model.  Every setState of a handler is      *)
(* committed by the render that ends the handler's task, so the closures   *)
(* of handleScroll, toggleView and the Save buttons read the state         *)
(* variables below.  The effect of useEffect(..., [page]) is passive: the  *)
(* commit that changed page schedules it with the closure of that render   *)
(* (pageNumber, loading, hasMore), and it runs later, either on its own    *)
(* (RunEffect) or at the start of the next render, whichever comes first.  *)
(* handleScroll reads its closure before that render starts, so its step   *)
(* contains the run of the scheduled effect.  The other handlers read      *)
(* nothing fetchNews writes before its await, so for them "effect, then    *)
(* handler" is the step RunEffect followed by the handler's step.          *)
(***************************************************************************)
EXTENDS Integers, Sequences, FiniteSets, TLC

VARIABLES
    news,           \* useState<NewsArticle[]>([])
    loading,        \* useState(false)
    page,           \* useState(1)
    hasMore,        \* useState(true)
    savedArticles,  \* useState<NewsArticle[]>([])
    viewingSaved,   \* useState(false)
    effect,         \* the scheduled passive effect with its closure, or NoEffect
    inflight,       \* page numbers of the HTTP requests awaiting a response
    requested,      \* history: page numbers of every HTTP request issued
    arrived,        \* history: article lists of the successful responses, in arrival order
    ended,          \* history: some response had an empty or absent articles field
    storage,        \* AsyncStorage value under 'savedArticles'
    saves,          \* activations of saveArticle
    loads,          \* number of getSavedArticles activations awaiting getItem
    lastLoad,       \* history: outcome of the most recent getSavedArticles completion
    alerts,         \* number of alert('Saved!') calls
    lastScroll      \* history: the last scroll event and its isCloseToBottom

vars == <<news, loading, page, hasMore, savedArticles, viewingSaved, effect,
          inflight, requested, arrived, ended, storage, saves, loads, lastLoad,
          alerts, lastScroll>>

feedVars == <<news, loading, page, hasMore, effect, inflight, requested, arrived, ended>>

(* ------------------------------ bounds --------------------------------- *)

MaxPage == 2
MaxPageLen == 2
MaxSaves == 3
MaxLoads == 1

Articles == {"a", "b"}

(* null / undefined, and the exception JSON.parse throws, as token         *)
(* sequences that are neither a stored array nor a list of articles.       *)
NoValue == <<"null">>
ParseError == <<"SyntaxError">>
NoArticle == "none"

(* The scroll events offered to handleScroll. *)
LayoutHeights == {800}
ContentHeights == {820, 1000}
Offsets == {0, 179, 180}

(* ------------------------------ helpers -------------------------------- *)

SeqsUpTo(S, n) == UNION {[1..k -> S] : k \in 0..n}

RECURSIVE Flatten(_)
Flatten(ss) == IF ss = <<>> THEN <<>> ELSE Head(ss) \o Flatten(Tail(ss))

RECURSIVE SumLen(_)
SumLen(ss) == IF ss = <<>> THEN 0 ELSE Len(Head(ss)) + SumLen(Tail(ss))

(* ------------------------------- JSON ---------------------------------- *)
(* A stored string is a sequence of tokens.                                *)

RECURSIVE JoinItems(_)
JoinItems(xs) ==
    IF xs = <<>> THEN <<>>
    ELSE IF Len(xs) = 1 THEN <<xs[1]>>
    ELSE <<xs[1], ",">> \o JoinItems(Tail(xs))

JSONstringify(xs) == <<"[">> \o JoinItems(xs) \o <<"]">>

RECURSIVE ParseItems(_)
ParseItems(ts) ==
    IF ts = <<>> THEN ParseError
    ELSE IF ts[1] \notin Articles THEN ParseError
    ELSE IF Len(ts) = 1 THEN <<ts[1]>>
    ELSE IF ts[2] # "," THEN ParseError
    ELSE LET rest == ParseItems(SubSeq(ts, 3, Len(ts)))
         IN  IF rest = ParseError THEN ParseError ELSE <<ts[1]>> \o rest

JSONparse(s) ==
    IF Len(s) < 2 \/ s[1] # "[" \/ s[Len(s)] # "]" THEN ParseError
    ELSE IF Len(s) = 2 THEN <<>>
    ELSE ParseItems(SubSeq(s, 2, Len(s) - 1))

(* Variant: the branches of the conditional swapped. *)
ParseOrEmptyInverted(saved) ==
    IF saved = NoValue \/ saved = <<>> THEN ParseError ELSE <<>>

(* saved ? JSON.parse(saved) : []   (null and "" are falsy) *)
ParseOrEmpty(saved) ==
    IF saved = NoValue \/ saved = <<>> THEN <<>> ELSE JSONparse(saved)

Corrupt == <<"[", "a">>

(* ----------------------------- responses ------------------------------- *)
(* What `await fetch(url)` and `await response.json()` can produce.        *)

Responses ==
    [kind : {"ok"}, articles : SeqsUpTo(Articles, MaxPageLen) \cup {NoValue}]
    \cup {[kind |-> "error", articles |-> NoValue]}

(* data.articles && data.articles.length > 0 *)
HasArticles(data) == data.articles # NoValue /\ Len(data.articles) > 0

(* --------------------------- scroll predicate -------------------------- *)

Threshold == 20

(* Variant: strict comparison. *)
isStrictlyCloseToBottom(layoutHeight, offsetY, contentHeight) ==
    layoutHeight + offsetY > contentHeight - Threshold

isCloseToBottom(layoutHeight, offsetY, contentHeight) ==
    layoutHeight + offsetY >= contentHeight - Threshold

(* ------------------------------ fetchNews ------------------------------ *)

(* Variant: the guard without the loading test. *)
FetchGuardIgnoresLoading(e) == ~e.hasMore

(* if (loading || !hasMore) return;  read from the closure e of the effect *)
FetchGuardReturns(e) == e.loading \/ ~e.hasMore

(* The scheduled effect, run now, issues a request. *)
EffectIssues == effect.scheduled /\ ~FetchGuardReturns(effect)

(* State after running the scheduled effect (fetchNews(page) up to its     *)
(* first await): setLoading(true) and the request for pageNumber.          *)
FlushedLoading == IF EffectIssues THEN TRUE ELSE loading
FlushedInflight == IF EffectIssues THEN Append(inflight, effect.pageNumber) ELSE inflight
FlushedRequested == IF EffectIssues THEN Append(requested, effect.pageNumber) ELSE requested

(* Variant: the effect calls fetchNews(1). *)
ClosureOfFirstPage(p, l, h) ==
    [scheduled |-> TRUE, pageNumber |-> 1, loading |-> l, hasMore |-> h]

(* The effect scheduled by the commit of a render whose page changed, with *)
(* the closure of that render. *)
Closure(p, l, h) == [scheduled |-> TRUE, pageNumber |-> p, loading |-> l, hasMore |-> h]

NoEffect == [scheduled |-> FALSE, pageNumber |-> 0, loading |-> FALSE, hasMore |-> FALSE]

(* ------------------------------- Init ---------------------------------- *)

IdleSave == [pc |-> "idle", article |-> NoArticle, articlesArray |-> <<>>,
             before |-> NoValue, seen |-> NoValue, alone |-> TRUE]

NoScroll == [seen |-> FALSE, layoutHeight |-> 0, offsetY |-> 0, contentHeight |-> 0,
             near |-> FALSE, hasMore |-> TRUE]

Init ==
    /\ news = <<>>
    /\ loading = FALSE
    /\ page = 1
    /\ hasMore = TRUE
    /\ savedArticles = <<>>
    /\ viewingSaved = FALSE
    /\ effect = Closure(1, FALSE, TRUE)
    /\ inflight = <<>>
    /\ requested = <<>>
    /\ arrived = <<>>
    /\ ended = FALSE
    /\ storage \in {NoValue, JSONstringify(<<"a">>), Corrupt}
    /\ saves = [s \in 1..MaxSaves |-> IdleSave]
    /\ loads = 0
    /\ lastLoad = "none"
    /\ alerts = 0
    /\ lastScroll = NoScroll

(* --------------------------- fetchNews, resumed ------------------------ *)

(* Variant: the new page is put in front of the list. *)
PrependArticles(prevNews, articles) == articles \o prevNews

(* setNews(prevNews => [...prevNews, ...data.articles]) *)
AppendArticles(prevNews, articles) == prevNews \o articles

(* news after the try block, for the response data *)
NewsAfter(prevNews, data) ==
    IF data.kind = "ok" /\ HasArticles(data)
    THEN AppendArticles(prevNews, data.articles)
    ELSE prevNews

(* Variant: a failed request counts as the end of the feed. *)
HasMoreFalseOnError(h, data) ==
    IF data.kind = "ok" /\ HasArticles(data) THEN h ELSE FALSE

(* Variant: an empty page leaves has-more as it is. *)
HasMoreKept(h, data) == h

(* else { setHasMore(false) }; a thrown error skips the whole if/else *)
HasMoreAfter(h, data) ==
    IF data.kind = "ok" /\ ~HasArticles(data) THEN FALSE ELSE h

(* Variant: setLoading(false) at the end of the try block, not in finally. *)
LoadingStuckOnError(l, data) == IF data.kind = "error" THEN l ELSE FALSE

(* finally { setLoading(false) } *)
LoadingAfter(l, data) == FALSE

Remove(s, i) == SubSeq(s, 1, i - 1) \o SubSeq(s, i + 1, Len(s))

(* The list a response carries, absent counted as empty. *)
Returned(data) == IF data.articles = NoValue THEN <<>> ELSE data.articles

(* ------------------------------ actions -------------------------------- *)

(* The scheduler runs the passive effect: fetchNews(page) up to its await. *)
RunEffect ==
    /\ effect.scheduled
    /\ loading' = FlushedLoading
    /\ inflight' = FlushedInflight
    /\ requested' = FlushedRequested
    /\ effect' = NoEffect
    /\ UNCHANGED <<news, page, hasMore, arrived, ended>>
    /\ UNCHANGED <<savedArticles, viewingSaved, loads, lastLoad, storage, saves, alerts,
                   lastScroll>>

(* Variant: the condition without the loading test. *)
AdvancesWhileLoading(near, h, l) == near /\ h

(* if (isCloseToBottom && hasMore && !loading) *)
AdvancesPage(near, h, l) == near /\ h /\ ~l

(* onScroll={handleScroll}.  setPage renders: the scheduled effect runs    *)
(* first, then the commit schedules the effect for the new page.           *)
handleScroll(layoutHeight, offsetY, contentHeight) ==
    LET near == isCloseToBottom(layoutHeight, offsetY, contentHeight) IN
    /\ lastScroll' = [seen |-> TRUE, layoutHeight |-> layoutHeight, offsetY |-> offsetY,
                      contentHeight |-> contentHeight, near |-> near,
                      hasMore |-> hasMore]
    /\ IF AdvancesPage(near, hasMore, loading)
       THEN /\ page < MaxPage
            /\ page' = page + 1
            /\ loading' = FlushedLoading
            /\ inflight' = FlushedInflight
            /\ requested' = FlushedRequested
            /\ effect' = Closure(page + 1, FlushedLoading, hasMore)
            /\ UNCHANGED <<news, hasMore, arrived, ended>>
       ELSE UNCHANGED feedVars
    /\ UNCHANGED <<savedArticles, viewingSaved, loads, lastLoad, storage, saves, alerts>>

Scroll ==
    \E h \in LayoutHeights, y \in Offsets, c \in ContentHeights : handleScroll(h, y, c)

(* The request at position i resolves or rejects and fetchNews resumes.    *)
FetchSettles(i, data) ==
    /\ ~effect.scheduled
    /\ news' = NewsAfter(news, data)
    /\ hasMore' = HasMoreAfter(hasMore, data)
    /\ loading' = LoadingAfter(loading, data)
    /\ inflight' = Remove(inflight, i)
    /\ UNCHANGED <<requested, effect>>
    /\ arrived' = IF data.kind = "ok" THEN Append(arrived, Returned(data)) ELSE arrived
    /\ ended' = (ended \/ (data.kind = "ok" /\ ~HasArticles(data)))
    /\ UNCHANGED page
    /\ UNCHANGED <<savedArticles, viewingSaved, loads, lastLoad, storage, saves, alerts,
                   lastScroll>>

FetchDone ==
    \E i \in 1..Len(inflight), data \in Responses : FetchSettles(i, data)

(* Variant: the catch block clears the list. *)
SavedClearedOnFailure(prev) == <<>>

(* catch (error) { console.error(...) }: no setSavedArticles *)
SavedAfterFailure(prev) == prev

(* getSavedArticles resumes after getItem. *)
LoadSettles(resolved) ==
    /\ loads > 0
    /\ loads' = loads - 1
    /\ LET articles == ParseOrEmpty(storage) IN
       IF resolved /\ articles # ParseError
       THEN /\ ~effect.scheduled
            /\ savedArticles' = articles
            /\ lastLoad' = "ok"
       ELSE /\ savedArticles' = SavedAfterFailure(savedArticles)
            /\ lastLoad' = "failed"
    /\ UNCHANGED feedVars
    /\ UNCHANGED <<viewingSaved, storage, saves, alerts, lastScroll>>

LoadDone == \E resolved \in BOOLEAN : LoadSettles(resolved)

(* Variant: getSavedArticles called before the test, in both directions. *)
toggleViewAlwaysLoads ==
    /\ ~effect.scheduled
    /\ loads < MaxLoads
    /\ loads' = loads + 1
    /\ viewingSaved' = ~viewingSaved
    /\ UNCHANGED feedVars
    /\ UNCHANGED <<savedArticles, lastLoad, storage, saves, alerts, lastScroll>>

(* Variant: going back to the feed starts it over. *)
toggleViewReload ==
    /\ ~effect.scheduled
    /\ IF viewingSaved
       THEN /\ viewingSaved' = FALSE
            /\ news' = <<>>
            /\ UNCHANGED loads
       ELSE /\ loads < MaxLoads
            /\ loads' = loads + 1
            /\ viewingSaved' = TRUE
            /\ UNCHANGED news
    /\ UNCHANGED <<loading, page, hasMore, effect, inflight, requested, arrived, ended>>
    /\ UNCHANGED <<savedArticles, lastLoad, storage, saves, alerts, lastScroll>>

(* onPress={toggleView} *)
toggleView ==
    /\ ~effect.scheduled
    /\ IF viewingSaved
       THEN /\ viewingSaved' = FALSE
            /\ UNCHANGED loads
       ELSE /\ loads < MaxLoads
            /\ loads' = loads + 1
            /\ viewingSaved' = TRUE
    /\ UNCHANGED feedVars
    /\ UNCHANGED <<savedArticles, lastLoad, storage, saves, alerts, lastScroll>>

(* Variant: the two branches of the conditional swapped. *)
RenderedSwapped == IF viewingSaved THEN news ELSE savedArticles

(* viewingSaved ? savedArticles.map(...) : news.map(...) *)
Rendered == IF viewingSaved THEN savedArticles ELSE news

(* --------------------------- saveArticle ------------------------------- *)

Active(s) == saves[s].pc \in {"read", "write"}

Range(f) == {f[i] : i \in DOMAIN f}

(* onPress={() => saveArticle(item)}: a Save button of a feed item, which  *)
(* is rendered in Feed view only.  Activation s awaits getItem.            *)
saveArticle(s, item) ==
    /\ ~viewingSaved
    /\ item \in Range(news)
    /\ saves[s].pc = "idle"
    /\ \A r \in 1..(s - 1) : saves[r].pc # "idle"
    /\ saves' = [r \in 1..MaxSaves |->
                   IF r = s
                   THEN [pc |-> "read", article |-> item, articlesArray |-> <<>>,
                         before |-> storage, seen |-> NoValue,
                         alone |-> \A o \in 1..MaxSaves : ~Active(o)]
                   ELSE IF Active(r) THEN [saves[r] EXCEPT !.alone = FALSE]
                   ELSE saves[r]]
    /\ UNCHANGED <<storage, alerts>>
    /\ UNCHANGED feedVars
    /\ UNCHANGED <<savedArticles, viewingSaved, loads, lastLoad, lastScroll>>

SavePress == \E s \in 1..MaxSaves, item \in Articles : saveArticle(s, item)

(* Variant: an article already in the list is not pushed again. *)
PushUnique(articlesArray, article) ==
    IF article \in {articlesArray[i] : i \in DOMAIN articlesArray}
    THEN articlesArray
    ELSE Append(articlesArray, article)

(* Variant: the list is replaced by the article instead of extended. *)
PushOnly(articlesArray, article) == <<article>>

(* articlesArray.push(article) *)
Push(articlesArray, article) == Append(articlesArray, article)

(* getItem settles; on success parse, push and call setItem. *)
SaveReads(s, resolved) ==
    /\ saves[s].pc = "read"
    /\ LET parsed == ParseOrEmpty(storage) IN
       IF resolved /\ parsed # ParseError
       THEN saves' = [saves EXCEPT ![s].pc = "write", ![s].seen = storage,
                                   ![s].articlesArray = Push(parsed, saves[s].article)]
       ELSE saves' = [saves EXCEPT ![s].pc = "failed"]
    /\ UNCHANGED <<storage, alerts>>
    /\ UNCHANGED feedVars
    /\ UNCHANGED <<savedArticles, viewingSaved, loads, lastLoad, lastScroll>>

(* Variant: the list is read again when it is written. *)
WrittenMerged(s) == JSONstringify(Append(ParseOrEmpty(storage), saves[s].article))

(* What setItem stores for activation s. *)
Written(s) == JSONstringify(saves[s].articlesArray)

(* Variant: the alert placed after the try/catch. *)
AlertsAlways(n, resolved) == n + 1

(* alert('Saved!') is the last statement of the try block. *)
AlertsAfter(n, resolved) == IF resolved THEN n + 1 ELSE n

(* setItem settles; on success alert('Saved!'). *)
SaveWrites(s, resolved) ==
    /\ saves[s].pc = "write"
    /\ alerts' = AlertsAfter(alerts, resolved)
    /\ IF resolved
       THEN /\ storage' = Written(s)
            /\ saves' = [saves EXCEPT ![s].pc = "saved"]
       ELSE /\ saves' = [saves EXCEPT ![s].pc = "failed"]
            /\ UNCHANGED storage
    /\ UNCHANGED feedVars
    /\ UNCHANGED <<savedArticles, viewingSaved, loads, lastLoad, lastScroll>>

SaveReadDone == \E s \in 1..MaxSaves, resolved \in BOOLEAN : SaveReads(s, resolved)
SaveWriteDone == \E s \in 1..MaxSaves, resolved \in BOOLEAN : SaveWrites(s, resolved)

Next ==
    \/ RunEffect
    \/ Scroll
    \/ FetchDone
    \/ toggleView
    \/ LoadDone
    \/ SavePress
    \/ SaveReadDone
    \/ SaveWriteDone

Spec == Init /\ [][Next]_vars

(* The feed alone.  fetchNews, the effect and handleScroll read and write   *)
(* the feed state only, and no other handler writes it, so the feed state  *)
(* evolves under Next exactly as it does under NextFeed.                   *)
NextFeed ==
    \/ RunEffect
    \/ Scroll
    \/ FetchDone

FeedSpec == Init /\ [][NextFeed]_vars

(* The scheduler runs a scheduled effect, and the network call resolves or *)
(* rejects. *)
FairFeedSpec == FeedSpec /\ WF_vars(RunEffect) /\ WF_vars(FetchDone)

(* The feed and the view toggle, without saves: the stored value is the    *)
(* one found at mount. *)
NextView ==
    \/ RunEffect
    \/ Scroll
    \/ FetchDone
    \/ toggleView
    \/ LoadDone

ViewSpec == Init /\ [][NextView]_vars

(* The bookmark store and the view toggle over the first page of the feed: *)
(* the saves and loads read the feed list only, to offer its items.        *)
NextStore ==
    \/ RunEffect
    \/ FetchDone
    \/ toggleView
    \/ LoadDone
    \/ SavePress
    \/ SaveReadDone
    \/ SaveWriteDone

StoreSpec == Init /\ [][NextStore]_vars

(* The saves alone over the first page of the feed: saveArticle reads only *)
(* the feed list and the view mode, and writes only the store.             *)
NextSave ==
    \/ RunEffect
    \/ FetchDone
    \/ SavePress
    \/ SaveReadDone
    \/ SaveWriteDone

SaveSpec == Init /\ [][NextSave]_vars

(* ------------------------------- claims -------------------------------- *)

NonEmpty(xs) == xs # <<>>

(* C1: at most one feed fetch is outstanding in every reachable state; a   *)
(* fetchNews call made while a request is outstanding issues no request.   *)
C1_SingleFetch == Len(inflight) <= 1

(* The effect for page 2 ran while the request for page 1 was outstanding  *)
(* and returned at its guard. *)
C1_Witness ==
    /\ inflight = <<1>>
    /\ requested = <<1>>
    /\ page = 2
    /\ ~effect.scheduled

(* C2: the feed list is the concatenation of the non-empty article lists   *)
(* of the successful responses in arrival order, and its length is the sum *)
(* of the lengths of the returned pages.                                   *)
C2_FeedIsConcatenation ==
    /\ news = Flatten(SelectSeq(arrived, NonEmpty))
    /\ Len(news) = SumLen(arrived)

(* Two non-empty pages arrived, different ones. *)
C2_Witness ==
    /\ Len(arrived) = 2
    /\ arrived[1] # <<>>
    /\ arrived[2] # <<>>
    /\ arrived[1] # arrived[2]
    /\ Len(news) = 2

(* C3: once a response had an empty or absent articles field, has-more is  *)
(* false in every later state and no further request is issued.            *)
C3_EndIsFinal ==
    /\ [](ended => ~hasMore)
    /\ [][ended => (ended' /\ requested' = requested)]_vars

(* A near-bottom scroll event was handled after the end of the feed. *)
C3_Witness ==
    /\ ended
    /\ lastScroll.seen
    /\ lastScroll.near
    /\ ~lastScroll.hasMore
    /\ inflight = <<>>

(* C4: loading = true is always followed by loading = false, whatever the  *)
(* outcome of the request, given that the request settles.                 *)
C4_LoadingReleased == loading ~> ~loading

(* A request failed and loading is false again. *)
C4_Witness ==
    /\ requested # <<>>
    /\ inflight = <<>>
    /\ arrived = <<>>
    /\ ~loading

Last(xs) == xs[Len(xs)]

(* C5: a successful save that no other save overlaps leaves, for a read of *)
(* all bookmarks, the list persisted when the save was called with the     *)
(* article appended as its last element; nothing is deduplicated.          *)
C5_SaveAppends ==
    [][\A s \in 1..MaxSaves :
          (saves[s].pc = "write" /\ saves'[s].pc = "saved" /\ saves[s].alone)
          => ParseOrEmpty(storage') =
                 Append(ParseOrEmpty(saves[s].before), saves[s].article)]_vars

(* The same article saved twice, one save after the other, then loaded:    *)
(* the loaded list ends in two copies of it. *)
C5_Witness ==
    /\ saves[1].pc = "saved" /\ saves[1].alone
    /\ saves[2].pc = "saved" /\ saves[2].alone
    /\ saves[1].article = saves[2].article
    /\ lastLoad = "ok"
    /\ savedArticles = ParseOrEmpty(storage)
    /\ Len(savedArticles) >= 2
    /\ savedArticles[Len(savedArticles)] = saves[2].article
    /\ savedArticles[Len(savedArticles) - 1] = saves[2].article

(* C6: a successful write stores the list its save read with its article   *)
(* pushed, whatever is stored when it writes, and signals confirmation: so *)
(* two saves that both read before either writes lose an update.           *)
C6_WriteOverwrites ==
    [][\A s \in 1..MaxSaves :
          (saves[s].pc = "write" /\ saves'[s].pc = "saved")
          => /\ storage' = JSONstringify(Append(ParseOrEmpty(saves[s].seen),
                                                saves[s].article))
             /\ alerts' = alerts + 1]_vars

(* The lost update: two saves of different articles read the same stored   *)
(* value, both succeeded and both signalled, and the persisted list is the *)
(* list read plus one article only. *)
C6_Witness ==
    /\ saves[1].pc = "saved"
    /\ saves[2].pc = "saved"
    /\ saves[1].seen = saves[2].seen
    /\ saves[1].article # saves[2].article
    /\ alerts = 2
    /\ ParseOrEmpty(storage) # ParseError
    /\ Len(ParseOrEmpty(storage)) = Len(ParseOrEmpty(saves[1].seen)) + 1
    /\ \E s \in 1..2 : Last(ParseOrEmpty(storage)) = saves[s].article

(* C7: the near-bottom result of a scroll event is true exactly when       *)
(* offset + viewportHeight >= contentHeight - 20; with viewportHeight 800  *)
(* and contentHeight 1000 it is true at offset 180 and false at 179.       *)
C7_NearBottom ==
    lastScroll.seen =>
        /\ lastScroll.near <=>
              (lastScroll.contentHeight - (lastScroll.offsetY + lastScroll.layoutHeight) <= 20)
        /\ (lastScroll.layoutHeight = 800 /\ lastScroll.contentHeight = 1000
              /\ lastScroll.offsetY = 180) => lastScroll.near
        /\ (lastScroll.layoutHeight = 800 /\ lastScroll.contentHeight = 1000
              /\ lastScroll.offsetY = 179) => ~lastScroll.near

(* The boundary event (800, 180, 1000) was handled and advanced the page. *)
C7_Witness ==
    /\ lastScroll.seen
    /\ lastScroll.layoutHeight = 800
    /\ lastScroll.contentHeight = 1000
    /\ lastScroll.offsetY = 180
    /\ lastScroll.near
    /\ page = 2

(* C8: a step that changes the view mode leaves the feed list, the page    *)
(* number, has-more and loading unchanged, so the feed rendered after      *)
(* Feed -> Saved -> Feed is the in-memory feed list.                       *)
C8_ToggleFrame ==
    [][viewingSaved' # viewingSaved
         => /\ news' = news
            /\ page' = page
            /\ hasMore' = hasMore
            /\ loading' = loading
            /\ (~viewingSaved' => Rendered' = news)]_vars

(* Back in Feed view after a completed visit of Saved view, with a feed. *)
C8_Witness ==
    /\ ~viewingSaved
    /\ lastLoad = "ok"
    /\ loads = 0
    /\ news # <<>>
    /\ Rendered = news

(* C9: in Saved view with nothing stored under the bookmark key, the list  *)
(* rendered is the empty sequence.                                         *)
C9_EmptyStoreRendersEmpty ==
    (viewingSaved /\ storage = NoValue) => Rendered = <<>>

(* Saved view after a completed load of an absent value, with a feed. *)
C9_Witness ==
    /\ viewingSaved
    /\ storage = NoValue
    /\ lastLoad = "ok"
    /\ loads = 0
    /\ news # <<>>

(* C10, as claimed: after a failed load the saved-articles list is empty.  *)
C10_FailedLoadEmpties == lastLoad = "failed" => savedArticles = <<>>

(* C10, amended: a failed load (getItem rejected or JSON.parse threw)      *)
(* leaves the saved-articles list as it was before the load.               *)
C10_FailedLoadKeeps ==
    [][(loads' = loads - 1 /\ lastLoad' = "failed")
         => savedArticles' = savedArticles]_vars

(* A load failed after an earlier one had set a non-empty list. *)
C10_Witness ==
    /\ lastLoad = "failed"
    /\ savedArticles # <<>>
    /\ viewingSaved

(* C11: a request that fails (transport or parsing) leaves the feed list,  *)
(* has-more and the page number as they were; the step only sets loading   *)
(* to false, and it issues no request and schedules no effect.             *)
C11_FailureChangesOnlyLoading ==
    [][(Len(inflight') < Len(inflight) /\ arrived' = arrived)
         => /\ news' = news
            /\ hasMore' = hasMore
            /\ page' = page
            /\ loading /\ ~loading'
            /\ requested' = requested
            /\ effect' = effect]_vars

(* The request for page 2 failed after page 1 had filled the feed. *)
C11_Witness ==
    /\ requested = <<1, 2>>
    /\ inflight = <<>>
    /\ Len(arrived) = 1
    /\ news # <<>>
    /\ hasMore
    /\ ~loading
    /\ page = 2

(* C12: the confirmation is signalled exactly by the saves whose read,     *)
(* parse and write all succeeded; a save that fails signals nothing and    *)
(* leaves the stored value alone, which, when no other save overlapped it, *)
(* is the value stored when the save was called.                           *)
C12_ConfirmationIffSaved ==
    /\ [](alerts = Cardinality({s \in 1..MaxSaves : saves[s].pc = "saved"}))
    /\ [][\A s \in 1..MaxSaves :
            /\ (saves[s].pc # "saved" /\ saves'[s].pc = "saved")
                 => /\ saves[s].pc = "write"
                    /\ saves[s].articlesArray # <<>>
                    /\ storage' = JSONstringify(saves[s].articlesArray)
                    /\ alerts' = alerts + 1
            /\ (saves[s].pc # "failed" /\ saves'[s].pc = "failed")
                 => /\ alerts' = alerts
                    /\ storage' = storage
                    /\ (saves[s].alone => storage' = saves[s].before)]_vars

(* One save failed at its write, without a confirmation, and a later one   *)
(* succeeded with one. *)
C12_Witness ==
    /\ saves[1].pc = "failed"
    /\ saves[1].articlesArray # <<>>
    /\ saves[1].alone
    /\ saves[2].pc = "saved"
    /\ alerts = 1

(* C13: the page number starts at 1 and never decreases; every change of   *)
(* it is an increase by 1 made while handling a near-bottom scroll event   *)
(* in a state where loading is false, no request is outstanding and        *)
(* has-more is true.                                                       *)
C13_PageAdvance ==
    /\ page = 1
    /\ [][page' >= page]_vars
    /\ [][page' # page
            => /\ page' = page + 1
               /\ lastScroll'.seen /\ lastScroll'.near
               /\ lastScroll'.layoutHeight + lastScroll'.offsetY
                     >= lastScroll'.contentHeight - 20
               /\ ~loading
               /\ inflight = <<>>
               /\ hasMore]_vars

(* The page advanced to 2 after the first page had arrived. *)
C13_Witness ==
    /\ page = 2
    /\ Len(arrived) = 1
    /\ lastScroll.near
    /\ effect.scheduled
    /\ ~effect.loading

(* C14: every page advance leads to a request for the new page number:     *)
(* once the effect of a page change has run, that page has been requested, *)
(* and the page numbers requested are 1, 2, 3, ... with none skipped.      *)
C14_EveryPageRequested ==
    /\ \A i \in 1..Len(requested) : requested[i] = i
    /\ ~effect.scheduled => page \in Range(requested)

(* C15: no page number is requested more than once, whether its request    *)
(* succeeded or failed.                                                    *)
C15_NoPageRequestedTwice ==
    \A i, j \in 1..Len(requested) : i # j => requested[i] # requested[j]

(* The request for page 1 failed and the next request is for page 2. *)
C15_Witness ==
    /\ requested = <<1, 2>>
    /\ arrived = <<>>
    /\ inflight = <<2>>

(* C16: the view mode starts as Feed and a toggle flips it; the flip from  *)
(* Feed to Saved starts exactly one bookmark read, the flip from Saved to  *)
(* Feed starts no storage operation and no fetch, and nothing else starts  *)
(* a bookmark read.                                                        *)
C16_ToggleFlips ==
    /\ ~viewingSaved
    /\ [][toggleView => viewingSaved' = ~viewingSaved]_vars
    /\ [][viewingSaved' # viewingSaved
            => /\ loads' = (IF viewingSaved' THEN loads + 1 ELSE loads)
               /\ requested' = requested
               /\ inflight' = inflight
               /\ effect' = effect
               /\ saves' = saves
               /\ storage' = storage]_vars
    /\ [][loads' > loads => (~viewingSaved /\ viewingSaved')]_vars

(* Back in Feed view while the read started by the visit of Saved view is  *)
(* still outstanding. *)
C16_Witness ==
    /\ ~viewingSaved
    /\ loads = 1
    /\ lastLoad = "none"
    /\ requested = <<1>>

Quiet == loads = 0 /\ \A s \in 1..MaxSaves : ~Active(s)

(* C17, as claimed: in Saved view with no storage operation outstanding,   *)
(* the saved-articles list rendered equals the persisted bookmark list.    *)
C17_SavedViewIsPersisted ==
    (viewingSaved /\ Quiet /\ ParseOrEmpty(storage) # ParseError)
        => Rendered = ParseOrEmpty(storage)

(* C17, amended: the saved-articles list changes only when a bookmark load *)
(* completes successfully, and it then is the list persisted at that       *)
(* moment (the empty list when nothing is stored).                         *)
C17_LoadSetsPersisted ==
    /\ [][(loads' = loads - 1 /\ lastLoad' = "ok")
            => IF storage = NoValue \/ storage = <<>>
               THEN savedArticles' = <<>>
               ELSE storage = JSONstringify(savedArticles')]_vars
    /\ [][savedArticles' # savedArticles
            => (loads' = loads - 1 /\ lastLoad' = "ok")]_vars

(* Saved view, nothing outstanding, the last load succeeded, and the list  *)
(* shown is not the list persisted: a save started in Feed view wrote      *)
(* after the load had read. *)
C17_Witness ==
    /\ viewingSaved
    /\ Quiet
    /\ lastLoad = "ok"
    /\ ParseOrEmpty(storage) # ParseError
    /\ savedArticles # ParseOrEmpty(storage)
    /\ \E s \in 1..MaxSaves : saves[s].pc = "saved"

StoredLen(v) == Len(ParseOrEmpty(v))

(* C18, as claimed: no write makes the persisted bookmark list shorter.    *)
C18_NeverShorter ==
    [][storage' # storage => StoredLen(storage') >= StoredLen(storage)]_vars

(* C18, amended: a successful write stores a list one longer than the list *)
(* its own save read, and so longer than the list stored before the write  *)
(* whenever the stored value is still the one that save read.              *)
C18_OneLongerThanRead ==
    [][\A s \in 1..MaxSaves :
          (saves[s].pc = "write" /\ saves'[s].pc = "saved")
          => /\ StoredLen(storage') = StoredLen(saves[s].seen) + 1
             /\ (storage = saves[s].seen => StoredLen(storage') > StoredLen(storage))]_vars

(* A stale write has shortened the list: the stored list is that of one    *)
(* successful save, and another successful save had stored a longer one.   *)
C18_Witness ==
    \E s, r \in 1..MaxSaves :
        /\ saves[s].pc = "saved"
        /\ saves[r].pc = "saved"
        /\ storage = JSONstringify(saves[s].articlesArray)
        /\ Len(saves[r].articlesArray) > Len(saves[s].articlesArray)

====
